---------------------------- MODULE Spec2Model ----------------------------
(***************************************************************************)
(* A model of the Sipzy vault program (programs/sipzy_vault/src/lib.rs):   *)
(* one bonding-curve pool, its trading handlers (buy_tokens, sell_tokens), *)
(* its view functions (get_price, get_buy_cost), its lifecycle handlers    *)
(* (deactivate_pool, reactivate_pool) and the curve arithmetic under them. *)
(*                                                                         *)
(* The program computes in u64 and u128.  TLC's own integers stop at       *)
(* 2^31 - 1, so every program integer is held as a natural number of       *)
(* arbitrary size: a sequence of limbs in base 2^15, least significant     *)
(* limb first, with no leading zero limb, so that two numbers are equal    *)
(* exactly when their sequences are.  The widths are the program's:        *)
(* U64_MAX is 2^64 - 1 and U128_MAX is 2^128 - 1.                          *)
(***************************************************************************)
EXTENDS Integers, Sequences, FiniteSets, TLC

(***************************************************************************)
(* Natural numbers of arbitrary size.                                      *)
(***************************************************************************)
BASE == 2^15

Zero == << >>

RECURSIVE Norm(_)
Norm(s) ==
    IF s = << >> THEN << >>
    ELSE IF s[Len(s)] = 0 THEN Norm(SubSeq(s, 1, Len(s) - 1))
    ELSE s

RECURSIVE Nat2Big(_)
Nat2Big(n) == IF n = 0 THEN << >> ELSE <<n % BASE>> \o Nat2Big(n \div BASE)

Limb(a, i) == IF i <= Len(a) THEN a[i] ELSE 0

MaxOf(m, n) == IF m >= n THEN m ELSE n

RECURSIVE AddFrom(_, _, _, _)
AddFrom(a, b, i, carry) ==
    IF i > MaxOf(Len(a), Len(b))
    THEN (IF carry = 0 THEN << >> ELSE <<carry>>)
    ELSE LET t == Limb(a, i) + Limb(b, i) + carry
         IN  <<t % BASE>> \o AddFrom(a, b, i + 1, t \div BASE)

Add(a, b) == AddFrom(a, b, 1, 0)

RECURSIVE LtFrom(_, _, _)
LtFrom(a, b, i) ==
    IF i = 0 THEN FALSE
    ELSE IF a[i] # b[i] THEN a[i] < b[i]
    ELSE LtFrom(a, b, i - 1)

Lt(a, b) ==
    IF Len(a) # Len(b) THEN Len(a) < Len(b) ELSE LtFrom(a, b, Len(a))

Le(a, b) == ~Lt(b, a)

RECURSIVE SubFrom(_, _, _, _)
SubFrom(a, b, i, borrow) ==
    IF i > Len(a) THEN << >>
    ELSE LET t == a[i] - Limb(b, i) - borrow
         IN  IF t < 0
             THEN <<t + BASE>> \o SubFrom(a, b, i + 1, 1)
             ELSE <<t>> \o SubFrom(a, b, i + 1, 0)

\* a - b for b <= a
Sub(a, b) == Norm(SubFrom(a, b, 1, 0))

RECURSIVE MulLimbFrom(_, _, _, _)
MulLimbFrom(a, d, i, carry) ==
    IF i > Len(a)
    THEN (IF carry = 0 THEN << >> ELSE <<carry>>)
    ELSE LET t == a[i] * d + carry
         IN  <<t % BASE>> \o MulLimbFrom(a, d, i + 1, t \div BASE)

\* a * d for a limb d
MulLimb(a, d) == IF d = 0 THEN << >> ELSE MulLimbFrom(a, d, 1, 0)

\* a * BASE^k
ShiftBy(a, k) == IF a = << >> THEN << >> ELSE [i \in 1..k |-> 0] \o a

\* a * b, one limb of b after the other: s = [i, acc] holds the limb to come
\* and the sum of a * b[j] * BASE^(j-1) for the limbs j < i
RECURSIVE MulLoop(_, _, _)
MulLoop(a, b, s) ==
    IF s.i > Len(b) THEN s.acc
    ELSE MulLoop(a, b, [ i   |-> s.i + 1,
                         acc |-> Add(s.acc, ShiftBy(MulLimb(a, b[s.i]), s.i - 1)) ])

Mul(a, b) ==
    IF a = << >> \/ b = << >> THEN << >>
    ELSE MulLoop(a, b, [i |-> 1, acc |-> << >>])

\* the largest limb q in lo..hi with q * b <= r, given lo * b <= r
RECURSIVE QuotLimb(_, _, _, _)
QuotLimb(r, b, lo, hi) ==
    IF lo >= hi THEN lo
    ELSE LET mid == (lo + hi + 1) \div 2
         IN  IF Le(MulLimb(b, mid), r)
             THEN QuotLimb(r, b, mid, hi)
             ELSE QuotLimb(r, b, lo, mid - 1)

MinOf(m, n) == IF m <= n THEN m ELSE n

\* floor(r / b) for b # 0 and r < b * BASE: a limb.  The leading limbs of r
\* and b bound the quotient from both sides and QuotLimb finds it between.
Quot(r, b) ==
    LET k    == Len(b)
        btop == b[k]
        rtop == IF Len(r) = k + 1 THEN r[k + 1] * BASE + r[k]
                ELSE IF Len(r) = k THEN r[k]
                ELSE 0
    IN  IF Len(r) < k THEN 0
        ELSE IF k = 1 THEN rtop \div btop
        ELSE QuotLimb(r, b, rtop \div (btop + 1),
                      MinOf(BASE - 1, (rtop + 1) \div btop))

\* long division of a by b, from the most significant limb down: s = [i, r,
\* q] holds the limb of a to come, the remainder of the limbs above it, and
\* their quotient limbs (the least significant first)
RECURSIVE DivLoop(_, _, _)
DivLoop(a, b, s) ==
    IF s.i = 0 THEN s
    ELSE LET r1 == Norm(<<a[s.i]>> \o s.r)
             q  == Quot(r1, b)
         IN  DivLoop(a, b, [ i |-> s.i - 1,
                             r |-> Sub(r1, MulLimb(b, q)),
                             q |-> <<q>> \o s.q ])

\* floor(a / b), for b # 0
Div(a, b) == Norm(DivLoop(a, b, [i |-> Len(a), r |-> << >>, q |-> << >>]).q)

IsOdd(a) == a # << >> /\ a[1] % 2 = 1

\* a mod 2^n: the limbs below bit n
LowBits(a, n) ==
    Norm([i \in 1..MinOf(Len(a), n \div 15 + 1) |->
            IF i = n \div 15 + 1 THEN a[i] % 2^(n % 15) ELSE a[i]])

\* 2^n
Pow2(n) == [i \in 1..(n \div 15 + 1) |-> IF i = n \div 15 + 1 THEN 2^(n % 15) ELSE 0]

One == <<1>>

(***************************************************************************)
(* The program's integer types and its results.                            *)
(***************************************************************************)
U64_MAX  == Sub(Pow2(64), One)
U128_MAX == Sub(Pow2(128), One)

\* Result<T>: Ok(v), or Err(e) with e a SipzyError name.  "Panic" stands for
\* the abort of the whole instruction by an arithmetic panic, which is no
\* SipzyError.
Ok(v)  == [ok |-> TRUE,  val |-> v,     err |-> "None"]
Err(e) == [ok |-> FALSE, val |-> << >>, err |-> e]

\* u64::wrapping_add, which checked_add is not: the sum modulo 2^64
wrapping_add(a, b) == Ok(LowBits(Add(a, b), 64))

\* u64::wrapping_mul, which checked_mul is not: the product modulo 2^64
wrapping_mul(a, b) == Ok(LowBits(Mul(a, b), 64))

\* u64::checked_add, checked_sub, checked_mul, checked_div with
\* .ok_or(SipzyError::Overflow)
checked_add(a, b) ==
    LET s == Add(a, b) IN IF Le(s, U64_MAX) THEN Ok(s) ELSE Err("Overflow")
checked_sub(a, b) == IF Le(b, a) THEN Ok(Sub(a, b)) ELSE Err("Overflow")
checked_mul(a, b) ==
    LET p == Mul(a, b) IN IF Le(p, U64_MAX) THEN Ok(p) ELSE Err("Overflow")
checked_div(a, b) == IF b = Zero THEN Err("Overflow") ELSE Ok(Div(a, b))

\* the same on u128
checked_add_u128(a, b) ==
    LET s == Add(a, b) IN IF Le(s, U128_MAX) THEN Ok(s) ELSE Err("Overflow")
checked_mul_u128(a, b) ==
    LET p == Mul(a, b) IN IF Le(p, U128_MAX) THEN Ok(p) ELSE Err("Overflow")

\* the operator * on u64 in a build without overflow checks, which
\* saturating_mul is not: the product modulo 2^64
modular_mul(a, b) == LowBits(Mul(a, b), 64)

\* u64::saturating_add, saturating_mul
saturating_add(a, b) ==
    LET s == Add(a, b) IN IF Le(s, U64_MAX) THEN s ELSE U64_MAX
saturating_mul(a, b) ==
    LET p == Mul(a, b) IN IF Le(p, U64_MAX) THEN p ELSE U64_MAX

\* The operator * on u128.  A product past 2^128 - 1 panics in a build with
\* overflow checks (oc) and wraps modulo 2^128 in a build without.
mul_u128(a, b, oc) ==
    LET p == Mul(a, b)
    IN  IF Le(p, U128_MAX) THEN Ok(p)
        ELSE IF oc THEN Err("Panic")
        ELSE Ok(LowBits(p, 128))

(***************************************************************************)
(* Constants (lib.rs 21-37).                                               *)
(***************************************************************************)
FEE_BASIS_POINTS == 100
DEFAULT_CREATOR_BASE_PRICE == 10000000
DEFAULT_CREATOR_SLOPE == 100000
DEFAULT_STREAM_BASE_PRICE == 1000000
DEFAULT_STREAM_GROWTH_RATE == 500
EXP_PRECISION == 1000000000

\* the literal 10000 (basis points in one) of calculate_fee, get_buy_cost and
\* the exponential curve
BPS_SCALE == 10000
\* the summation threshold of calculate_exponential_integral
SUMMATION_MAX == 100

N(n) == Nat2Big(n)

(***************************************************************************)
(* Bonding curve math.                                                     *)
(***************************************************************************)

\* the operator ? on a Result: the value of an Ok goes on to the rest of
\* the function, an Err is what the function returns
Try(r, rest(_)) == IF r.ok THEN rest(r.val) ELSE r

\* fn calculate_linear_price
calculate_linear_price(supply, base_price, slope) ==
    saturating_add(base_price, saturating_mul(supply, slope))

\* calculate_linear_integral with the division by 2 ahead of the product by
\* amount: sum_indices = amount * ((first + last) / 2)
calculate_linear_integral_halved(start_supply, end_supply, base_price, slope) ==
    Try(checked_sub(end_supply, start_supply), LAMBDA amount :
    IF amount = Zero THEN Ok(Zero) ELSE
    Try(checked_mul(amount, base_price), LAMBDA base_cost :
    Try(checked_sub(end_supply, One), LAMBDA last_index :
    Try(checked_add(start_supply, last_index), LAMBDA first_last :
    Try(checked_div(first_last, N(2)), LAMBDA half :
    Try(checked_mul(amount, half), LAMBDA sum_indices :
    Try(checked_mul(sum_indices, slope), LAMBDA slope_cost :
    checked_add(base_cost, slope_cost))))))))

\* fn calculate_linear_integral
calculate_linear_integral(start_supply, end_supply, base_price, slope) ==
    Try(checked_sub(end_supply, start_supply), LAMBDA amount :
    IF amount = Zero THEN Ok(Zero) ELSE
    Try(checked_mul(amount, base_price), LAMBDA base_cost :
    Try(checked_sub(end_supply, One), LAMBDA last_index :
    Try(checked_add(start_supply, last_index), LAMBDA first_last :
    Try(checked_mul(amount, first_last), LAMBDA doubled :
    Try(checked_div(doubled, N(2)), LAMBDA sum_indices :
    Try(checked_mul(sum_indices, slope), LAMBDA slope_cost :
    checked_add(base_cost, slope_cost))))))))

\* a loop that returns early: its variables s, with s.err the error it
\* returned with ("None" while it runs)
Halt(s, e) == [s EXCEPT !.err = e]
TryPass(r, s, rest(_)) == IF r.ok THEN rest(r.val) ELSE Halt(s, r.err)

\* (x * y) / EXP_PRECISION on u128
mul_scaled(x, y, oc) ==
    Try(mul_u128(x, y, oc), LAMBDA xy : Ok(Div(xy, N(EXP_PRECISION))))

\* u64::MAX as u128 * EXP_PRECISION (lib.rs 438)
PRICE_LIMIT == Mul(U64_MAX, N(EXP_PRECISION))

\* the test of the loop of calculate_exponential_price (lib.rs 437-440)
price_overflow(s) ==
    IF Lt(PRICE_LIMIT, s.result) THEN Halt(s, "Overflow") ELSE s

\* a pass of the while loop of calculate_exponential_price (lib.rs 430-441)
\* over its variables s = [result, base, exp]
price_step(s, oc) ==
    TryPass(IF IsOdd(s.exp) THEN mul_scaled(s.result, s.base, oc)
            ELSE Ok(s.result), s, LAMBDA result :
    TryPass(mul_scaled(s.base, s.base, oc), s, LAMBDA base :
    price_overflow([ result |-> result, base |-> base,
                     exp |-> Div(s.exp, N(2)), err |-> "None" ])))

\* at most n passes of the while loop of calculate_exponential_price
RECURSIVE price_passes(_, _, _)
price_passes(s, n, oc) ==
    IF n = 0 \/ s.err # "None" \/ s.exp = Zero THEN s
    ELSE price_passes(price_step(s, oc), n - 1, oc)

\* the while loop of calculate_exponential_price: passes until exp = 0 or an
\* error, taken eight at a time so that the evaluation of 64 passes nests
\* 16 deep
RECURSIVE price_loop(_, _)
price_loop(s, oc) ==
    IF s.err # "None" \/ s.exp = Zero THEN s
    ELSE price_loop(price_passes(s, 8, oc), oc)

\* the result of a loop that returns early
Ended(s) == IF s.err # "None" THEN Err(s.err) ELSE Ok(s.result)

\* a u128 as u64, behind the test that it fits (lib.rs 446, 477, 511)
as_u64(v) == IF Lt(U64_MAX, v) THEN Err("Overflow") ELSE Ok(v)

\* fn calculate_exponential_price.  (10000 + growth_rate_bps) * EXP_PRECISION
\* is below 2^94 for every u64 growth_rate_bps: that product cannot overflow.
calculate_exponential_price(supply, base_price, growth_rate_bps, oc) ==
    Try(Ended(price_loop(
            [ result |-> N(EXP_PRECISION),
              base   |-> Div(Mul(Add(N(BPS_SCALE), growth_rate_bps),
                                 N(EXP_PRECISION)), N(BPS_SCALE)),
              exp    |-> supply,
              err    |-> "None" ], oc)), LAMBDA result :
    Try(mul_scaled(base_price, result, oc), LAMBDA price :
    as_u64(price)))

\* a pass of the while loop of exp_power (lib.rs 524-530) over its variables
\* s = [result, b, e]
power_step(s, oc) ==
    TryPass(IF IsOdd(s.e) THEN mul_scaled(s.result, s.b, oc)
            ELSE Ok(s.result), s, LAMBDA result :
    TryPass(mul_scaled(s.b, s.b, oc), s, LAMBDA b :
    [ result |-> result, b |-> b, e |-> Div(s.e, N(2)), err |-> "None" ]))

\* at most n passes of the while loop of exp_power
RECURSIVE power_passes(_, _, _)
power_passes(s, n, oc) ==
    IF n = 0 \/ s.err # "None" \/ s.e = Zero THEN s
    ELSE power_passes(power_step(s, oc), n - 1, oc)

\* the while loop of exp_power: passes until e = 0 or an error, taken eight
\* at a time
RECURSIVE power_loop(_, _)
power_loop(s, oc) ==
    IF s.err # "None" \/ s.e = Zero THEN s
    ELSE power_loop(power_passes(s, 8, oc), oc)

\* fn exp_power
exp_power(base, exp, scale, oc) ==
    Try(mul_u128(base, N(EXP_PRECISION), oc), LAMBDA scaled :
    Ended(power_loop([ result |-> N(EXP_PRECISION), b |-> Div(scaled, scale),
                       e |-> exp, err |-> "None" ], oc)))

\* the for loop of calculate_exponential_integral (lib.rs 469-473): the
\* prices of the n supplies from i on, added up with checked_add, or the
\* first error in the order of the loop.  The range is halved rather than
\* walked so that the evaluation nests 7 deep instead of 100; no sum of at
\* most 100 u64 prices passes 2^128 - 1, so the additions associate freely.
RECURSIVE sum_prices(_, _, _, _, _)
sum_prices(i, n, base_price, growth_rate_bps, oc) ==
    IF n = 0 THEN Ok(Zero)
    ELSE IF n = 1
    THEN calculate_exponential_price(i, base_price, growth_rate_bps, oc)
    ELSE
    Try(sum_prices(i, n \div 2, base_price, growth_rate_bps, oc),
        LAMBDA left :
    Try(sum_prices(Add(i, N(n \div 2)), n - n \div 2, base_price,
                   growth_rate_bps, oc), LAMBDA right :
    checked_add_u128(left, right)))

\* a number below 2^15 as a TLC integer
Small(a) == IF a = Zero THEN 0 ELSE a[1]

\* calculate_exponential_integral, the geometric series (lib.rs 481-515)
geometric_series(start_supply, end_supply, amount, base_price, growth_rate_bps, oc) ==
    Try(exp_power(Add(N(BPS_SCALE), growth_rate_bps), start_supply,
                  N(BPS_SCALE), oc), LAMBDA r_start :
    Try(exp_power(Add(N(BPS_SCALE), growth_rate_bps), end_supply,
                  N(BPS_SCALE), oc), LAMBDA r_end :
    Try(checked_sub(r_end, r_start), LAMBDA diff :
    Try(checked_mul_u128(base_price, diff), LAMBDA numerator :
    IF growth_rate_bps = Zero THEN checked_mul(base_price, amount) ELSE
    Try(checked_mul_u128(numerator, N(BPS_SCALE)), LAMBDA scaled :
    Try(checked_div(scaled, growth_rate_bps), LAMBDA quotient :
    Try(checked_div(quotient, N(EXP_PRECISION)), LAMBDA result :
    as_u64(result))))))))

\* fn calculate_exponential_integral
calculate_exponential_integral(start_supply, end_supply, base_price, growth_rate_bps, oc) ==
    Try(checked_sub(end_supply, start_supply), LAMBDA amount :
    IF amount = Zero THEN Ok(Zero)
    ELSE IF Le(amount, N(SUMMATION_MAX))
    THEN Try(sum_prices(start_supply, Small(amount), base_price,
                        growth_rate_bps, oc), LAMBDA total :
         as_u64(total))
    ELSE geometric_series(start_supply, end_supply, amount, base_price,
                          growth_rate_bps, oc))

\* calculate_fee with the fee rounded up: fee = ceil(amount * 100 / 10000)
calculate_fee_rounded_up(amount) ==
    Try(checked_mul(amount, N(FEE_BASIS_POINTS)), LAMBDA scaled :
    Try(checked_div(Add(scaled, N(BPS_SCALE - 1)), N(BPS_SCALE)), LAMBDA fee :
    Try(checked_sub(amount, fee), LAMBDA net :
    Ok(<<fee, net>>))))

\* calculate_fee with the pair the other way round: Ok(<<net, fee>>)
calculate_fee_swapped(amount) ==
    Try(checked_mul(amount, N(FEE_BASIS_POINTS)), LAMBDA scaled :
    Try(checked_div(scaled, N(BPS_SCALE)), LAMBDA fee :
    Try(checked_sub(amount, fee), LAMBDA net :
    Ok(<<net, fee>>))))

\* fn calculate_fee: Ok(<<fee, net>>)
calculate_fee(amount) ==
    Try(checked_mul(amount, N(FEE_BASIS_POINTS)), LAMBDA scaled :
    Try(checked_div(scaled, N(BPS_SCALE)), LAMBDA fee :
    Try(checked_sub(amount, fee), LAMBDA net :
    Ok(<<fee, net>>))))

(***************************************************************************)
(* Accounts and state.                                                     *)
(***************************************************************************)

\* the keys of the accounts an instruction can name
CREATOR   == "creator"
AUTHORITY == "authority"
TRADER    == "trader"
Keys == {CREATOR, AUTHORITY, TRADER}

\* Option<u64>
None == <<"None">>
Some(v) == <<"Some", v>>
unwrap_or(opt, default) == IF opt[1] = "None" THEN default ELSE opt[2]

VARIABLES
    pool,   \* the Pool account (struct Pool)
    last,   \* the last instruction: its arguments, its result, the pool before
            \* it, and what it did in order (transfers, writes, events)
    bought, \* the amounts of all successful buys, added up
    sold,   \* the amounts of all successful sells, added up
    trades  \* the number of successful buys and sells

vars == <<pool, last, bought, sold, trades>>

\* fn initialize_creator_pool (the fields the handlers read)
initialize_creator_pool(channel_id, creator_wallet, authority, base_price, slope) ==
    [ pool_type      |-> "Creator",
      identifier     |-> channel_id,
      creator_wallet |-> creator_wallet,
      authority      |-> authority,
      total_supply   |-> Zero,
      reserve_sol    |-> Zero,
      base_price     |-> unwrap_or(base_price, N(DEFAULT_CREATOR_BASE_PRICE)),
      curve_param    |-> unwrap_or(slope, N(DEFAULT_CREATOR_SLOPE)),
      is_active      |-> TRUE ]

\* fn initialize_stream_pool
initialize_stream_pool(video_id, creator_wallet, authority, base_price, growth_rate) ==
    [ pool_type      |-> "Stream",
      identifier     |-> video_id,
      creator_wallet |-> creator_wallet,
      authority      |-> authority,
      total_supply   |-> Zero,
      reserve_sol    |-> Zero,
      base_price     |-> unwrap_or(base_price, N(DEFAULT_STREAM_BASE_PRICE)),
      curve_param    |-> unwrap_or(growth_rate, N(DEFAULT_STREAM_GROWTH_RATE)),
      is_active      |-> TRUE ]

\* what a handler hands back: its result ("Ok" or the error), the pool after
\* it, what it did in order, and the value it returns
Outcome(result, p, effects, ret) ==
    [result |-> result, pool |-> p, effects |-> effects, ret |-> ret]

\* the operator ? in a handler: an Err ends the instruction with that error,
\* after the effects so far, and the pool account is not written
TryIx(r, p, effects, rest(_)) ==
    IF r.ok THEN rest(r.val) ELSE Outcome(r.err, p, effects, None)

\* the match on pool.pool_type of get_buy_cost (lib.rs 307-310), and of
\* buy_tokens and sell_tokens
curve_integral(p, start_supply, end_supply, oc) ==
    IF p.pool_type = "Creator"
    THEN calculate_linear_integral(start_supply, end_supply,
                                   p.base_price, p.curve_param)
    ELSE calculate_exponential_integral(start_supply, end_supply,
                                        p.base_price, p.curve_param, oc)

\* the total cost of buy_tokens: its match on pool.pool_type (lib.rs 151-164)
buy_cost(p, start_supply, end_supply, oc) ==
    curve_integral(p, start_supply, end_supply, oc)

\* a refund priced over the tokens above the supply, not the tokens sold
sell_refund_forward(p, start_supply, end_supply, oc) ==
    curve_integral(p, end_supply,
                   Add(end_supply, Sub(end_supply, start_supply)), oc)

\* the gross refund of sell_tokens: its match on pool.pool_type
\* (lib.rs 228-241)
sell_refund(p, start_supply, end_supply, oc) ==
    curve_integral(p, start_supply, end_supply, oc)

\* struct Trade without the constraint on pool.is_active
trade_accounts_wallet_only(p, creator_wallet) ==
    IF creator_wallet # p.creator_wallet THEN "InvalidCreatorWallet" ELSE "Ok"

\* #[derive(Accounts)] struct Trade: the constraints, in the order of the fields
trade_accounts(p, creator_wallet) ==
    IF ~p.is_active THEN "PoolInactive"
    ELSE IF creator_wallet # p.creator_wallet THEN "InvalidCreatorWallet"
    ELSE "Ok"

\* struct ManagePool with the signer held against pool.authority
manage_accounts_authority(p, creator) ==
    IF p.authority # creator THEN "Unauthorized" ELSE "Ok"

\* #[derive(Accounts)] struct ManagePool
manage_accounts(p, creator) ==
    IF p.creator_wallet # creator THEN "Unauthorized" ELSE "Ok"

\* system_program::transfer, a call out of the program: it moves the lamports
\* (ok) or returns an error
Transfer(to, lamports, ok) ==
    [e |-> "transfer", to |-> to, lamports |-> lamports, ok |-> ok]

\* a write to a field of the pool account
Write(field, val) == [e |-> "write", field |-> field, val |-> val]

\* the lamport arithmetic of sell_tokens on the pool account and a payee
Debit(to, lamports) == [e |-> "debit", to |-> to, lamports |-> lamports]

\* emit!(TokensTraded {..})
TokensTraded(trade_type, amount, sol_amount, fee, p) ==
    [ e |-> "emit", trade_type |-> trade_type, amount |-> amount,
      sol_amount |-> sol_amount, fee |-> fee,
      new_supply |-> p.total_supply, new_reserve |-> p.reserve_sol ]

\* emit!(PoolStatusChanged {..})
PoolStatusChanged(is_active) == [e |-> "emit_status", is_active |-> is_active]

\* "Update pool state" with a third write, of the trade's amount of lamports
\* to base_price
trade_commit_base_price(p0, trade_type, amount, sol_amount, fee, reserve_sol, total_supply, effects) ==
    Outcome("Ok",
            [p0 EXCEPT !.reserve_sol = reserve_sol,
                       !.total_supply = total_supply,
                       !.base_price = sol_amount],
            effects \o
            << Write("reserve_sol", reserve_sol),
               Write("total_supply", total_supply),
               Write("base_price", sol_amount),
               TokensTraded(trade_type, amount, sol_amount, fee,
                            [p0 EXCEPT !.reserve_sol = reserve_sol,
                                       !.total_supply = total_supply]) >>,
            None)

\* "Update pool state" without the write to total_supply
trade_commit_reserve_only(p0, trade_type, amount, sol_amount, fee, reserve_sol, total_supply, effects) ==
    Outcome("Ok",
            [p0 EXCEPT !.reserve_sol = reserve_sol],
            effects \o
            << Write("reserve_sol", reserve_sol),
               TokensTraded(trade_type, amount, sol_amount, fee,
                            [p0 EXCEPT !.reserve_sol = reserve_sol]) >>,
            None)

\* the two writes of "Update pool state" and the emit! after them
\* (lib.rs 195-209, 262-278), on the pool p0 the handler was called with
trade_commit(p0, trade_type, amount, sol_amount, fee, reserve_sol, total_supply, effects) ==
    Outcome("Ok",
            [p0 EXCEPT !.reserve_sol = reserve_sol,
                       !.total_supply = total_supply],
            effects \o
            << Write("reserve_sol", reserve_sol),
               Write("total_supply", total_supply),
               TokensTraded(trade_type, amount, sol_amount, fee,
                            [p0 EXCEPT !.reserve_sol = reserve_sol,
                                       !.total_supply = total_supply]) >>,
            None)

\* the two transfers the other way round: the fee first
buy_transfers_fee_first(pool_deposit, creator_fee, xfer) ==
    IF xfer = "fail1"
    THEN << Transfer("creator_wallet", creator_fee, FALSE) >>
    ELSE << Transfer("creator_wallet", creator_fee, TRUE),
            Transfer("pool", pool_deposit, xfer # "fail2") >>

\* buy_tokens, the two transfers (lib.rs 169-191); xfer says which fails
buy_transfers(pool_deposit, creator_fee, xfer) ==
    IF xfer = "fail1"
    THEN << Transfer("pool", pool_deposit, FALSE) >>
    ELSE << Transfer("pool", pool_deposit, TRUE),
            Transfer("creator_wallet", creator_fee, xfer # "fail2") >>

\* buy_tokens with "Update pool state" ahead of the transfers, and kept
\* when a transfer fails
buy_settle_commit_first(p, amount, end_supply, total_cost, creator_fee, pool_deposit, xfer) ==
    TryIx(checked_add(p.reserve_sol, pool_deposit), p, << >>,
          LAMBDA reserve_sol :
    IF xfer # "ok"
    THEN Outcome("TransferFailed",
                 [p EXCEPT !.reserve_sol = reserve_sol,
                           !.total_supply = end_supply],
                 << Write("reserve_sol", reserve_sol),
                    Write("total_supply", end_supply) >> \o
                 buy_transfers(pool_deposit, creator_fee, xfer), None)
    ELSE trade_commit(p, "Buy", amount, total_cost, creator_fee, reserve_sol,
                      end_supply,
                      buy_transfers(pool_deposit, creator_fee, xfer)))

\* buy_tokens after the fee split (lib.rs 169-211): transfers, "Update pool
\* state", event
buy_settle(p, amount, end_supply, total_cost, creator_fee, pool_deposit, xfer) ==
    IF xfer # "ok"
    THEN Outcome("TransferFailed", p,
                 buy_transfers(pool_deposit, creator_fee, xfer), None)
    ELSE
    TryIx(checked_add(p.reserve_sol, pool_deposit), p,
          buy_transfers(pool_deposit, creator_fee, xfer), LAMBDA reserve_sol :
    trade_commit(p, "Buy", amount, total_cost, creator_fee, reserve_sol,
                 end_supply, buy_transfers(pool_deposit, creator_fee, xfer)))

\* buy_tokens without the require! on amount
buy_tokens_any_amount(p, creator_wallet, amount, xfer, oc) ==
    IF trade_accounts(p, creator_wallet) # "Ok"
    THEN Outcome(trade_accounts(p, creator_wallet), p, << >>, None)
    ELSE IF ~p.is_active THEN Outcome("PoolInactive", p, << >>, None)
    ELSE
    TryIx(checked_add(p.total_supply, amount), p, << >>, LAMBDA end_supply :
    TryIx(buy_cost(p, p.total_supply, end_supply, oc), p, << >>,
          LAMBDA total_cost :
    TryIx(calculate_fee(total_cost), p, << >>, LAMBDA split :
    buy_settle(p, amount, end_supply, total_cost, split[1], split[2], xfer))))

\* fn buy_tokens, behind the account constraints of Trade
buy_tokens(p, creator_wallet, amount, xfer, oc) ==
    IF trade_accounts(p, creator_wallet) # "Ok"
    THEN Outcome(trade_accounts(p, creator_wallet), p, << >>, None)
    ELSE IF amount = Zero THEN Outcome("InvalidAmount", p, << >>, None)
    ELSE IF ~p.is_active THEN Outcome("PoolInactive", p, << >>, None)
    ELSE
    TryIx(checked_add(p.total_supply, amount), p, << >>, LAMBDA end_supply :
    TryIx(buy_cost(p, p.total_supply, end_supply, oc), p, << >>,
          LAMBDA total_cost :
    TryIx(calculate_fee(total_cost), p, << >>, LAMBDA split :
    buy_settle(p, amount, end_supply, total_cost, split[1], split[2], xfer))))

\* sell_tokens without the require! on the reserve
sell_reserve_check_skipped(p, net_refund, creator_fee) ==
    checked_add(net_refund, creator_fee)

\* the require! on the reserve with the net refund alone, the fee left out
sell_reserve_check_net_only(p, net_refund, creator_fee) ==
    Try(checked_add(net_refund, creator_fee), LAMBDA refund :
    IF Le(net_refund, p.reserve_sol) THEN Ok(refund)
    ELSE Err("InsufficientReserve"))

\* sell_tokens, the require! on the reserve (lib.rs 246-249)
sell_reserve_check(p, net_refund, creator_fee) ==
    Try(checked_add(net_refund, creator_fee), LAMBDA refund :
    IF Le(refund, p.reserve_sol) THEN Ok(refund)
    ELSE Err("InsufficientReserve"))

\* sell_tokens, the lamports moved out of the pool account (lib.rs 251-258)
sell_debits(net_refund, creator_fee) ==
    << Debit("trader", net_refund), Debit("creator_wallet", creator_fee) >>

\* the new reserve of sell_tokens less the net refund alone, the fee kept in
sell_reserve_net_only(p, net_refund, creator_fee) ==
    checked_sub(p.reserve_sol, net_refund)

\* sell_tokens, the new reserve of "Update pool state" (lib.rs 262-266)
sell_reserve(p, net_refund, creator_fee) ==
    Try(checked_sub(p.reserve_sol, net_refund), LAMBDA rest :
    checked_sub(rest, creator_fee))

\* sell_tokens after the fee split (lib.rs 246-280): the require!, the
\* lamports, "Update pool state", event
sell_settle(p, amount, start_supply, gross_refund, creator_fee, net_refund) ==
    TryIx(sell_reserve_check(p, net_refund, creator_fee), p, << >>,
          LAMBDA refund :
    TryIx(sell_reserve(p, net_refund, creator_fee), p,
          sell_debits(net_refund, creator_fee), LAMBDA reserve_sol :
    trade_commit(p, "Sell", amount, gross_refund, creator_fee, reserve_sol,
                 start_supply, sell_debits(net_refund, creator_fee))))

\* sell_tokens without the require! on total_supply
sell_tokens_any_supply(p, creator_wallet, amount, oc) ==
    IF trade_accounts(p, creator_wallet) # "Ok"
    THEN Outcome(trade_accounts(p, creator_wallet), p, << >>, None)
    ELSE IF amount = Zero THEN Outcome("InvalidAmount", p, << >>, None)
    ELSE IF ~p.is_active THEN Outcome("PoolInactive", p, << >>, None)
    ELSE
    TryIx(checked_sub(p.total_supply, amount), p, << >>, LAMBDA start_supply :
    TryIx(sell_refund(p, start_supply, p.total_supply, oc), p, << >>,
          LAMBDA gross_refund :
    TryIx(calculate_fee(gross_refund), p, << >>, LAMBDA split :
    sell_settle(p, amount, start_supply, gross_refund, split[1], split[2]))))

\* fn sell_tokens, behind the account constraints of Trade
sell_tokens(p, creator_wallet, amount, oc) ==
    IF trade_accounts(p, creator_wallet) # "Ok"
    THEN Outcome(trade_accounts(p, creator_wallet), p, << >>, None)
    ELSE IF amount = Zero THEN Outcome("InvalidAmount", p, << >>, None)
    ELSE IF ~p.is_active THEN Outcome("PoolInactive", p, << >>, None)
    ELSE IF ~Le(amount, p.total_supply)
    THEN Outcome("InsufficientSupply", p, << >>, None)
    ELSE
    TryIx(checked_sub(p.total_supply, amount), p, << >>, LAMBDA start_supply :
    TryIx(sell_refund(p, start_supply, p.total_supply, oc), p, << >>,
          LAMBDA gross_refund :
    TryIx(calculate_fee(gross_refund), p, << >>, LAMBDA split :
    sell_settle(p, amount, start_supply, gross_refund, split[1], split[2]))))

\* fn get_price
get_price(p, oc) ==
    IF p.pool_type = "Creator"
    THEN Outcome("Ok", p, << >>,
                 Some(calculate_linear_price(p.total_supply, p.base_price,
                                             p.curve_param)))
    ELSE TryIx(calculate_exponential_price(p.total_supply, p.base_price,
                                           p.curve_param, oc), p, << >>,
               LAMBDA price : Outcome("Ok", p, << >>, Some(price)))

\* fn get_buy_cost
get_buy_cost(p, amount, oc) ==
    TryIx(checked_add(p.total_supply, amount), p, << >>, LAMBDA end :
    TryIx(curve_integral(p, p.total_supply, end, oc), p, << >>, LAMBDA cost :
    TryIx(checked_mul(cost, N(BPS_SCALE + FEE_BASIS_POINTS)), p, << >>,
          LAMBDA scaled :
    TryIx(checked_div(scaled, N(BPS_SCALE)), p, << >>, LAMBDA total_with_fee :
    Outcome("Ok", p, << >>, Some(total_with_fee))))))

\* fn deactivate_pool, behind the account constraint of ManagePool
deactivate_pool(p, creator) ==
    IF manage_accounts(p, creator) # "Ok"
    THEN Outcome(manage_accounts(p, creator), p, << >>, None)
    ELSE Outcome("Ok", [p EXCEPT !.is_active = FALSE],
                 << Write("is_active", FALSE), PoolStatusChanged(FALSE) >>,
                 None)

\* reactivate_pool without the write to is_active
reactivate_pool_no_write(p, creator) ==
    IF manage_accounts(p, creator) # "Ok"
    THEN Outcome(manage_accounts(p, creator), p, << >>, None)
    ELSE Outcome("Ok", p, << PoolStatusChanged(TRUE) >>, None)

\* fn reactivate_pool, behind the account constraint of ManagePool
reactivate_pool(p, creator) ==
    IF manage_accounts(p, creator) # "Ok"
    THEN Outcome(manage_accounts(p, creator), p, << >>, None)
    ELSE Outcome("Ok", [p EXCEPT !.is_active = TRUE],
                 << Write("is_active", TRUE), PoolStatusChanged(TRUE) >>,
                 None)

(***************************************************************************)
(* The instructions a client can send, and the bounds of the exploration.  *)
(***************************************************************************)

\* trade instructions are sent while fewer than this many trades have
\* succeeded: on the default pools, and on the pool of the largest base
\* price (WhalePool)
MaxTrades == 3
MaxTradesWhale == 104
\* the tokens sold back to the pool of the largest base price
MaxSoldWhale == 2

\* the largest gross cost calculate_fee accepts: floor((2^64 - 1) / 100)
WhaleBasePrice == Div(U64_MAX, N(FEE_BASIS_POINTS))

\* the pools initialize_creator_pool and initialize_stream_pool are called
\* for: the defaults of both kinds
InitialPools ==
    { initialize_creator_pool("channel", CREATOR, AUTHORITY, None, None),
      initialize_stream_pool("video", CREATOR, AUTHORITY, None, None) }

\* a creator pool of the largest base price, flat
WhalePool ==
    initialize_creator_pool("channel", CREATOR, AUTHORITY,
                            Some(WhaleBasePrice), Some(Zero))

TradeCap(p) ==
    IF p.base_price = WhaleBasePrice THEN MaxTradesWhale ELSE MaxTrades

SoldCap(p, n) == p.base_price = WhaleBasePrice => Le(n, N(MaxSoldWhale))

\* the amounts of buy_tokens, sell_tokens and get_buy_cost
Amounts == { Zero, N(1), N(10), U64_MAX }

\* the arguments of a trade: an amount with the pool's creator wallet, or one
\* token with another account in its place
Trades == { <<a, CREATOR>> : a \in Amounts } \cup { <<N(1), TRADER>> }

\* a buy and the outcome of its transfers: every trade with transfers that
\* succeed, and the buy of one token with a transfer that fails
Buys == { <<t[1], t[2], "ok">> : t \in Trades }
        \cup { <<N(1), CREATOR, xfer>> : xfer \in {"fail1", "fail2"} }

\* the signers of deactivate_pool and reactivate_pool
Managers == { CREATOR, AUTHORITY }

\* the outcomes of the two transfers of buy_tokens
Xfers == { "ok", "fail1", "fail2" }

\* The outcomes of an instruction over the builds, with overflow checks
\* (run(TRUE)) and without.  The two builds part only at a product past
\* 2^128 - 1 (mul_u128), where the checked build panics: an instruction that
\* does not panic in the checked build runs the same in both.
AcrossBuilds(run(_)) ==
    LET checked == run(TRUE)
    IN  IF checked.result = "Panic" THEN {checked, run(FALSE)} ELSE {checked}

\* the lamports the two transfers of a buy took from the trader
Paid(effects) == Add(effects[1].lamports, effects[2].lamports)

\* the record of an instruction: its arguments, its result, the pool before
\* it, what it did in order, what it returned, and (follows) for a sell what
\* the buy of the same amount just before it took from the trader, for a buy
\* what the get_buy_cost of the same amount just before it returned
Call(op, amount, creator_wallet, out, follows) ==
    [ op |-> op, amount |-> amount, account |-> creator_wallet,
      result |-> out.result, pre |-> pool,
      effects |-> out.effects, ret |-> out.ret, follows |-> follows ]

Initialized ==
    /\ last = [ op |-> "initialize", amount |-> Zero, account |-> CREATOR,
                result |-> "Ok", pre |-> pool, effects |-> << >>,
                ret |-> None, follows |-> None ]
    /\ bought = Zero
    /\ sold = Zero
    /\ trades = 0

Init ==
    /\ pool \in InitialPools
    /\ Initialized

InitWhale ==
    /\ pool = WhalePool
    /\ Initialized

Buy(amount, creator_wallet, xfer) ==
    /\ trades < TradeCap(pool)
    /\ \E out \in AcrossBuilds(LAMBDA oc :
                      buy_tokens(pool, creator_wallet, amount, xfer, oc)) :
        /\ pool' = out.pool
        /\ last' = Call("buy", amount, creator_wallet, out,
                        IF last.op = "get_buy_cost" /\ last.result = "Ok"
                           /\ last.amount = amount
                        THEN last.ret ELSE None)
        /\ bought' = IF out.result = "Ok" THEN Add(bought, amount) ELSE bought
        /\ trades' = IF out.result = "Ok" THEN trades + 1 ELSE trades
        /\ UNCHANGED sold

Sell(amount, creator_wallet) ==
    /\ trades < TradeCap(pool)
    /\ \E out \in AcrossBuilds(LAMBDA oc :
                      sell_tokens(pool, creator_wallet, amount, oc)) :
        /\ out.result = "Ok" => SoldCap(pool, Add(sold, amount))
        /\ pool' = out.pool
        /\ last' = Call("sell", amount, creator_wallet, out,
                        IF last.op = "buy" /\ last.result = "Ok"
                           /\ last.amount = amount
                        THEN Some(Paid(last.effects)) ELSE None)
        /\ sold' = IF out.result = "Ok" THEN Add(sold, amount) ELSE sold
        /\ trades' = IF out.result = "Ok" THEN trades + 1 ELSE trades
        /\ UNCHANGED bought

GetPrice ==
    \E out \in AcrossBuilds(LAMBDA oc : get_price(pool, oc)) :
        /\ pool' = out.pool
        /\ last' = Call("get_price", Zero, CREATOR, out, None)
        /\ UNCHANGED <<bought, sold, trades>>

GetBuyCost(amount) ==
    \E out \in AcrossBuilds(LAMBDA oc : get_buy_cost(pool, amount, oc)) :
        /\ pool' = out.pool
        /\ last' = Call("get_buy_cost", amount, CREATOR, out, None)
        /\ UNCHANGED <<bought, sold, trades>>

Deactivate(creator) ==
    \E out \in {deactivate_pool(pool, creator)} :
        /\ pool' = out.pool
        /\ last' = Call("deactivate", Zero, creator, out, None)
        /\ UNCHANGED <<bought, sold, trades>>

Reactivate(creator) ==
    \E out \in {reactivate_pool(pool, creator)} :
        /\ pool' = out.pool
        /\ last' = Call("reactivate", Zero, creator, out, None)
        /\ UNCHANGED <<bought, sold, trades>>

Next ==
    \/ \E b \in Buys : Buy(b[1], b[2], b[3])
    \/ \E t \in Trades : Sell(t[1], t[2])
    \/ GetPrice
    \/ \E amount \in Amounts : GetBuyCost(amount)
    \/ \E creator \in Managers : Deactivate(creator)
    \/ \E creator \in Managers : Reactivate(creator)

Spec == Init /\ [][Next]_vars

\* the pool of the largest base price, traded one token at a time
NextWhale ==
    \/ \E xfer \in Xfers : Buy(N(1), CREATOR, xfer)
    \/ Sell(N(1), CREATOR)
    \/ GetPrice
    \/ GetBuyCost(N(1))
    \/ Deactivate(CREATOR)
    \/ Reactivate(CREATOR)

SpecWhale == InitWhale /\ [][NextWhale]_vars

(***************************************************************************)
(* The curve functions on their own: the quotes and the integrals applied  *)
(* to drawn arguments.  pool holds the pool quoted (its type, supply, base *)
(* price and curve parameter are the arguments), last the call asked for   *)
(* and then what it returned.                                              *)
(***************************************************************************)

\* a pool of the given type, supply and parameters
PoolAt(pool_type, supply, base_price, curve_param) ==
    IF pool_type = "Creator"
    THEN [ initialize_creator_pool("channel", CREATOR, AUTHORITY,
                                   Some(base_price), Some(curve_param))
             EXCEPT !.total_supply = supply ]
    ELSE [ initialize_stream_pool("video", CREATOR, AUTHORITY,
                                  Some(base_price), Some(curve_param))
             EXCEPT !.total_supply = supply ]

LinearSupplies ==
    { Zero, N(1), N(2), N(10), Pow2(32), Sub(U64_MAX, N(1)) }
LinearBasePrices ==
    { Zero, N(1), N(DEFAULT_CREATOR_BASE_PRICE), U64_MAX }
LinearSlopes ==
    { Zero, N(1), N(DEFAULT_CREATOR_SLOPE), Pow2(32), U64_MAX }

StreamSupplies ==
    { Zero, N(1), N(2), N(100), N(417), N(511), N(512), N(2574),
      Sub(U64_MAX, N(1)) }
StreamBasePrices == { N(1), N(DEFAULT_STREAM_BASE_PRICE), U64_MAX }
GrowthRates ==
    { Zero, N(1), N(DEFAULT_STREAM_GROWTH_RATE), N(2000), U64_MAX }

IntegralStarts == { Zero, N(1), N(3), N(10), Sub(U64_MAX, N(2)) }
IntegralFirst == { Zero, N(1), N(2), N(10) }
IntegralSecond == { Zero, N(1), N(5) }
IntegralBasePrices == { N(1), N(DEFAULT_CREATOR_BASE_PRICE), U64_MAX }
IntegralSlopes == { Zero, N(1), N(DEFAULT_CREATOR_SLOPE), U64_MAX }

PowerExponents == { Zero, N(1), N(2), N(100), N(511), N(512), N(1000) }

SeriesStarts == { Zero, N(3), N(412) }
SeriesAmounts == { Zero, N(1), N(2), N(100), N(101), N(509) }
SeriesBasePrices == { N(DEFAULT_STREAM_BASE_PRICE), U64_MAX }
SeriesGrowthRates == { Zero, N(DEFAULT_STREAM_GROWTH_RATE) }

LinearPools ==
    { PoolAt("Creator", supply, base_price, slope) :
        supply \in LinearSupplies, base_price \in LinearBasePrices,
        slope \in LinearSlopes }

StreamPools ==
    { PoolAt("Stream", supply, base_price, growth_rate) :
        supply \in StreamSupplies, base_price \in StreamBasePrices,
        growth_rate \in GrowthRates }

IntegralPools ==
    { PoolAt("Creator", start, base_price, slope) :
        start \in IntegralStarts, base_price \in IntegralBasePrices,
        slope \in IntegralSlopes }

PowerPools ==
    { PoolAt("Stream", exp, N(DEFAULT_STREAM_BASE_PRICE), growth_rate) :
        exp \in PowerExponents, growth_rate \in GrowthRates }

\* the gross amounts of calculate_fee
FeeAmounts ==
    { Zero, N(1), N(99), N(100), N(101), N(199), N(10000),
      N(DEFAULT_CREATOR_BASE_PRICE), N(104500000),
      Div(U64_MAX, N(FEE_BASIS_POINTS)),
      Add(Div(U64_MAX, N(FEE_BASIS_POINTS)), One),
      Sub(U64_MAX, One), U64_MAX }

SeriesPools ==
    { PoolAt("Stream", start, base_price, growth_rate) :
        start \in SeriesStarts, base_price \in SeriesBasePrices,
        growth_rate \in SeriesGrowthRates }

\* a call asked for: the function, two amounts (for the integral) and the
\* build
Asked(fn, a, b, oc) ==
    [ op |-> "asked", fn |-> fn, a |-> a, b |-> b, oc |-> oc ]

InitCurve ==
    /\ \/ /\ pool \in LinearPools
          /\ last = Asked("get_price", Zero, Zero, TRUE)
       \/ /\ pool \in StreamPools
          /\ last \in { Asked("get_price", Zero, Zero, oc) : oc \in BOOLEAN }
       \/ /\ pool \in IntegralPools
          /\ last \in { Asked("calculate_linear_integral", a, b, TRUE) :
                          a \in IntegralFirst, b \in IntegralSecond }
          /\ Le(Add(pool.total_supply, Add(last.a, last.b)), U64_MAX)
       \/ /\ pool \in PowerPools
          /\ last \in { Asked("exp_power", Zero, Zero, oc) : oc \in BOOLEAN }
       \/ /\ pool = PoolAt("Creator", Zero, N(DEFAULT_CREATOR_BASE_PRICE),
                         N(DEFAULT_CREATOR_SLOPE))
          /\ last \in { Asked("calculate_fee", a, Zero, TRUE) :
                          a \in FeeAmounts }
       \/ /\ pool \in SeriesPools
          /\ last \in { Asked("calculate_exponential_integral", a, Zero, oc) :
                          a \in SeriesAmounts, oc \in BOOLEAN }
    /\ bought = Zero
    /\ sold = Zero
    /\ trades = 0

\* get_price at the pool's supply and at one token more
QuotePrices ==
    /\ last.op = "asked"
    /\ last.fn = "get_price"
    /\ last' = [ op |-> "get_price", oc |-> last.oc,
                 at |-> get_price(pool, last.oc),
                 next |-> get_price(
                     [pool EXCEPT !.total_supply = Add(pool.total_supply, One)],
                     last.oc),
                 checked |-> get_price(pool, TRUE) ]
    /\ UNCHANGED <<pool, bought, sold, trades>>

\* calculate_linear_integral over [start, start + a + b), over its two parts
\* [start, start + a) and [start + a, start + a + b), and with the ends of
\* the first part the other way round
LinearIntegrals ==
    /\ last.op = "asked"
    /\ last.fn = "calculate_linear_integral"
    /\ last' = [ op |-> "calculate_linear_integral",
                 start |-> pool.total_supply,
                 mid |-> Add(pool.total_supply, last.a),
                 end |-> Add(pool.total_supply, Add(last.a, last.b)),
                 whole |-> calculate_linear_integral(
                     pool.total_supply,
                     Add(pool.total_supply, Add(last.a, last.b)),
                     pool.base_price, pool.curve_param),
                 left |-> calculate_linear_integral(
                     pool.total_supply, Add(pool.total_supply, last.a),
                     pool.base_price, pool.curve_param),
                 right |-> calculate_linear_integral(
                     Add(pool.total_supply, last.a),
                     Add(pool.total_supply, Add(last.a, last.b)),
                     pool.base_price, pool.curve_param),
                 back |-> calculate_linear_integral(
                     Add(pool.total_supply, last.a), pool.total_supply,
                     pool.base_price, pool.curve_param) ]
    /\ UNCHANGED <<pool, bought, sold, trades>>

\* exp_power as calculate_exponential_integral calls it (lib.rs 482-486):
\* base 10000 + growth_rate_bps, scale 10000, the supply as exponent
Powers ==
    /\ last.op = "asked"
    /\ last.fn = "exp_power"
    /\ last' = [ op |-> "exp_power", oc |-> last.oc,
                 at |-> exp_power(Add(N(BPS_SCALE), pool.curve_param),
                                  pool.total_supply, N(BPS_SCALE), last.oc),
                 checked |-> exp_power(Add(N(BPS_SCALE), pool.curve_param),
                                       pool.total_supply, N(BPS_SCALE), TRUE) ]
    /\ UNCHANGED <<pool, bought, sold, trades>>

\* calculate_exponential_integral over [start, start + a)
ExponentialIntegrals ==
    /\ last.op = "asked"
    /\ last.fn = "calculate_exponential_integral"
    /\ last' = [ op |-> "calculate_exponential_integral", oc |-> last.oc,
                 start |-> pool.total_supply,
                 end |-> Add(pool.total_supply, last.a),
                 at |-> calculate_exponential_integral(
                     pool.total_supply, Add(pool.total_supply, last.a),
                     pool.base_price, pool.curve_param, last.oc) ]
    /\ UNCHANGED <<pool, bought, sold, trades>>

\* calculate_fee of a gross amount
Fees ==
    /\ last.op = "asked"
    /\ last.fn = "calculate_fee"
    /\ last' = [ op |-> "calculate_fee", gross |-> last.a,
                 at |-> calculate_fee(last.a) ]
    /\ UNCHANGED <<pool, bought, sold, trades>>

NextCurve ==
    \/ QuotePrices
    \/ LinearIntegrals
    \/ Powers
    \/ ExponentialIntegrals
    \/ Fees

SpecCurve == InitCurve /\ [][NextCurve]_vars

(***************************************************************************)
(* Properties.  They read the record of the last instruction (last), the   *)
(* pool it left (pool) and the pool it found (last.pre).                   *)
(***************************************************************************)

IsTrade == last.op \in {"buy", "sell"}

\* the accounts of the last instruction pass the constraints of Trade
PassedAccounts ==
    last.pre.is_active /\ last.account = last.pre.creator_wallet

\* the fee and the net of a gross amount, as the specification gives them:
\* fee = floor(gross * 100 / 10000), net = gross - fee
FeeOf(gross) == Div(Mul(gross, N(100)), N(10000))
NetOf(gross) == Sub(gross, FeeOf(gross))
FeeFits(gross) == Le(Mul(gross, N(100)), U64_MAX)

\* the integral cost of the tokens the last buy asked for, and of the tokens
\* the last sell gave back (for a sell of at most the supply)
BuyGross ==
    curve_integral(last.pre, last.pre.total_supply,
                   Add(last.pre.total_supply, last.amount), TRUE)
SellGross ==
    curve_integral(last.pre, Sub(last.pre.total_supply, last.amount),
                   last.pre.total_supply, TRUE)

HasFailedTransfer ==
    \E i \in 1..Len(last.effects) :
        last.effects[i].e = "transfer" /\ ~last.effects[i].ok

\* C1: a buy or a sell that returns an error, whichever, leaves total_supply,
\* reserve_sol and is_active as they were; and no trade changes only one of
\* reserve_sol and total_supply.
C1_FailedTradeLeavesPool ==
    IsTrade =>
        /\ last.result # "Ok" =>
              /\ pool.total_supply = last.pre.total_supply
              /\ pool.reserve_sol = last.pre.reserve_sol
              /\ pool.is_active = last.pre.is_active
        /\ (pool.total_supply # last.pre.total_supply)
              <=> (pool.reserve_sol # last.pre.reserve_sol)

\* a buy whose second transfer failed, after the first had moved the deposit,
\* on a pool that holds tokens
C1_Witness ==
    /\ last.op = "buy"
    /\ last.result = "TransferFailed"
    /\ Len(last.effects) = 2
    /\ pool.total_supply # Zero

\* C2: total_supply and reserve_sol stay within 0 .. 2^64 - 1, every
\* committed update is the exact sum or difference (none wraps), and a sell
\* is committed only if the reserve covers what it pays out.
C2_SupplyAndReserveIn64Bits ==
    /\ Le(pool.total_supply, U64_MAX)
    /\ Le(pool.reserve_sol, U64_MAX)
    /\ (last.op = "buy" /\ last.result = "Ok") =>
          /\ pool.reserve_sol
                = Add(last.pre.reserve_sol, last.effects[1].lamports)
          /\ pool.total_supply = Add(last.pre.total_supply, last.amount)
    /\ (last.op = "sell" /\ last.result = "Ok") =>
          /\ Add(pool.reserve_sol, Add(last.effects[1].lamports,
                                       last.effects[2].lamports))
                = last.pre.reserve_sol
          /\ Add(pool.total_supply, last.amount) = last.pre.total_supply

\* a buy refused because the reserve with its deposit would pass 2^64 - 1
C2_Witness ==
    /\ last.op = "buy"
    /\ last.result = "Overflow"
    /\ last.effects # << >>
    /\ Lt(U64_MAX, Add(pool.reserve_sol, last.effects[1].lamports))

\* C3: a sell on an active pool of 0 < amount <= total_supply, whose gross
\* refund and fee split compute, succeeds exactly when reserve_sol >=
\* net_refund + fee; it then commits reserve_sol - (net_refund + fee) and
\* total_supply - amount, and otherwise fails with InsufficientReserve.
C3_SellNeedsReserve ==
    ( /\ last.op = "sell"
      /\ PassedAccounts
      /\ last.amount # Zero
      /\ Le(last.amount, last.pre.total_supply)
      /\ SellGross.ok
      /\ FeeFits(SellGross.val) )
    => /\ (last.result = "Ok") <=> Le(SellGross.val, last.pre.reserve_sol)
       /\ last.result = "Ok" =>
             /\ Add(pool.reserve_sol, Add(NetOf(SellGross.val),
                                          FeeOf(SellGross.val)))
                   = last.pre.reserve_sol
             /\ Add(pool.total_supply, last.amount) = last.pre.total_supply
             /\ last.effects[1].lamports = NetOf(SellGross.val)
             /\ last.effects[2].lamports = FeeOf(SellGross.val)
       /\ last.result # "Ok" =>
             /\ last.result = "InsufficientReserve"
             /\ pool = last.pre

\* a sell that succeeded and left lamports in the reserve
C3_Witness ==
    /\ last.op = "sell"
    /\ last.result = "Ok"
    /\ last.amount # Zero
    /\ pool.reserve_sol # Zero

\* the default creator pool as initialize_creator_pool leaves it
FreshCreatorPool ==
    initialize_creator_pool("channel", CREATOR, AUTHORITY, None, None)

\* C4: a buy of amount > 0 on an active pool, when nothing overflows and
\* both transfers succeed, commits total_supply + amount and reserve_sol +
\* pool_deposit, with gross_cost the integral cost of the tokens, fee =
\* floor(gross_cost * 100 / 10000) and pool_deposit = gross_cost - fee; on
\* the default creator pool at supply 0, buy(1) has gross 10_000_000, fee
\* 100_000, deposit 9_900_000 and buy(10) has gross 104_500_000, fee
\* 1_045_000, deposit 103_455_000.
C4_BuyCommits ==
    /\ ( /\ last.op = "buy"
         /\ PassedAccounts
         /\ last.amount # Zero
         /\ Le(Add(last.pre.total_supply, last.amount), U64_MAX)
         /\ BuyGross.ok
         /\ FeeFits(BuyGross.val)
         /\ Le(Add(last.pre.reserve_sol, NetOf(BuyGross.val)), U64_MAX)
         /\ ~HasFailedTransfer )
       => /\ last.result = "Ok"
          /\ pool.total_supply = Add(last.pre.total_supply, last.amount)
          /\ pool.reserve_sol
                = Add(last.pre.reserve_sol, NetOf(BuyGross.val))
          /\ last.effects[1].lamports = NetOf(BuyGross.val)
          /\ last.effects[2].lamports = FeeOf(BuyGross.val)
          /\ last.effects[5].sol_amount = BuyGross.val
          /\ last.effects[5].fee = FeeOf(BuyGross.val)
    /\ ( /\ last.op = "buy"
         /\ last.result = "Ok"
         /\ last.pre = FreshCreatorPool
         /\ last.amount = N(1) )
       => /\ last.effects[5].sol_amount = N(10000000)
          /\ last.effects[5].fee = N(100000)
          /\ pool.reserve_sol = N(9900000)
    /\ ( /\ last.op = "buy"
         /\ last.result = "Ok"
         /\ last.pre = FreshCreatorPool
         /\ last.amount = N(10) )
       => /\ last.effects[5].sol_amount = N(104500000)
          /\ last.effects[5].fee = N(1045000)
          /\ pool.reserve_sol = N(103455000)

\* buy(10) on the default creator pool at supply 0, committed
C4_Witness ==
    /\ last.op = "buy"
    /\ last.result = "Ok"
    /\ last.pre = FreshCreatorPool
    /\ last.amount = N(10)
    /\ pool.total_supply = N(10)

\* C5: total_supply is the amounts of the successful buys minus the amounts
\* of the successful sells; failed trades, quotes and the lifecycle
\* instructions add nothing.
C5_SupplyIsBoughtLessSold ==
    /\ Le(sold, bought)
    /\ Add(pool.total_supply, sold) = bought

\* tokens bought and sold, then a quote on the pool that still holds some
C5_Witness ==
    /\ sold # Zero
    /\ pool.total_supply # Zero
    /\ last.op = "get_buy_cost"
    /\ last.result = "Ok"

\* C6: in buy and in sell every step that can fail with an arithmetic error
\* runs before the first transfer: a trade that has moved lamports does not
\* fail with Overflow.
C6_ArithmeticBeforeTransfers ==
    (IsTrade /\ last.result \in {"Overflow", "Panic"})
        => last.effects = << >>

\* C7: a buy transfers the deposit to the pool, then the fee to the creator
\* wallet, then writes reserve_sol and total_supply, then emits the trade
\* record; if a transfer fails there is no write and no record; and a
\* record carries the supply and the reserve just written.
C7_BuyOrder ==
    last.op = "buy" =>
        /\ last.result = "Ok" =>
              /\ Len(last.effects) = 5
              /\ last.effects[1].e = "transfer"
              /\ last.effects[1].to = "pool"
              /\ last.effects[1].ok
              /\ Add(last.pre.reserve_sol, last.effects[1].lamports)
                    = pool.reserve_sol
              /\ last.effects[2].e = "transfer"
              /\ last.effects[2].to = "creator_wallet"
              /\ last.effects[2].ok
              /\ last.effects[3] = Write("reserve_sol", pool.reserve_sol)
              /\ last.effects[4] = Write("total_supply", pool.total_supply)
              /\ last.effects[5].e = "emit"
              /\ last.effects[5].fee = last.effects[2].lamports
        /\ HasFailedTransfer =>
              /\ last.result # "Ok"
              /\ pool = last.pre
              /\ \A j \in 1..Len(last.effects) :
                    last.effects[j].e = "transfer"
        /\ \A j \in 1..Len(last.effects) :
              last.effects[j].e = "emit" =>
                  /\ j = Len(last.effects)
                  /\ last.effects[j].new_supply = pool.total_supply
                  /\ last.effects[j].new_reserve = pool.reserve_sol

\* a buy on the stream pool that went through all five steps
C7_Witness ==
    /\ last.op = "buy"
    /\ last.result = "Ok"
    /\ pool.pool_type = "Stream"
    /\ Len(last.effects) = 5
    /\ last.pre.total_supply # Zero

\* C8: a sell that follows the buy of the same amount pays the trader a net
\* refund of at most what that buy took from the trader, on both curves.
C8_RoundTripSpread ==
    (last.op = "sell" /\ last.result = "Ok" /\ last.follows # None)
        => Le(last.effects[1].lamports, last.follows[2])

\* buy then sell of the same amount on the stream pool, the sell paid out
C8_Witness ==
    /\ last.op = "sell"
    /\ last.result = "Ok"
    /\ last.follows # None
    /\ pool.pool_type = "Stream"
    /\ last.effects[1].lamports # Zero

\* C9: the value get_buy_cost returns is what the buy of the same amount,
\* right after it on the same pool, takes from the trader (deposit and fee).
C9_QuoteIsWhatBuyTakes ==
    (last.op = "buy" /\ last.result = "Ok" /\ last.follows # None)
        => last.follows[2] = Paid(last.effects)

\* C10: a buy or a sell sent while is_active is false is rejected with
\* PoolInactive, whatever the amount, with no transfer, no record and no
\* change to the pool.
C10_InactivePoolRejectsTrades ==
    (IsTrade /\ ~last.pre.is_active)
        => /\ last.result = "PoolInactive"
           /\ last.effects = << >>
           /\ pool = last.pre

\* a buy of amount 0 sent to a deactivated pool that holds tokens
C10_Witness ==
    /\ last.op = "buy"
    /\ ~last.pre.is_active
    /\ last.amount = Zero
    /\ pool.total_supply # Zero

IsManage == last.op \in {"deactivate", "reactivate"}

\* C11: deactivate_pool and reactivate_pool take effect only for the signer
\* that is the pool's creator_wallet; for any other signer, the pool's
\* authority included, they fail with Unauthorized and is_active stays.
C11_OnlyCreatorWalletManages ==
    IsManage =>
        /\ last.account = last.pre.creator_wallet =>
              /\ last.result = "Ok"
              /\ pool.is_active = (last.op = "reactivate")
        /\ last.account # last.pre.creator_wallet =>
              /\ last.result = "Unauthorized"
              /\ pool = last.pre
              /\ last.effects = << >>

\* the authority, not the creator wallet, asked to deactivate an active pool
C11_Witness ==
    /\ last.op = "deactivate"
    /\ last.account = last.pre.authority
    /\ last.account # last.pre.creator_wallet
    /\ last.pre.is_active
    /\ last.result = "Unauthorized"

\* C12: a pool is active with total_supply 0 and reserve_sol 0 right after
\* initialize; is_active changes only in a successful deactivate_pool or
\* reactivate_pool, never in a buy, a sell or a quote; and a pool that was
\* deactivated and is reactivated takes trades again.
C12_ActiveOnlyBySetActive ==
    /\ last.op = "initialize" =>
          /\ pool.is_active
          /\ pool.total_supply = Zero
          /\ pool.reserve_sol = Zero
    /\ pool.is_active # last.pre.is_active =>
          /\ IsManage
          /\ last.result = "Ok"
    /\ (last.op = "reactivate" /\ last.result = "Ok") =>
          /\ pool.is_active
          /\ buy_tokens(pool, pool.creator_wallet, N(1), "ok", TRUE).result
                = "Ok"
          /\ sell_tokens(pool, pool.creator_wallet, N(1), TRUE).result
                \in {"Ok", "InsufficientSupply", "InsufficientReserve"}

\* a deactivated pool that holds tokens, reactivated
C12_Witness ==
    /\ last.op = "reactivate"
    /\ last.result = "Ok"
    /\ ~last.pre.is_active
    /\ pool.is_active
    /\ pool.total_supply # Zero
    /\ sell_tokens(pool, pool.creator_wallet, N(1), TRUE).result = "Ok"

\* the last instruction is a sell of more tokens than the pool holds, with
\* the pool's creator wallet
IsOversell ==
    /\ last.op = "sell"
    /\ last.account = last.pre.creator_wallet
    /\ Lt(last.pre.total_supply, last.amount)

\* C13 as stated: a sell of more than total_supply fails with
\* InsufficientSupply, and reserve_sol and total_supply stay.
C13_OversellIsInsufficientSupply ==
    IsOversell =>
        /\ last.result = "InsufficientSupply"
        /\ pool.total_supply = last.pre.total_supply
        /\ pool.reserve_sol = last.pre.reserve_sol

\* C13, amended: on an active pool a sell of more than total_supply fails
\* with InsufficientSupply, on a deactivated pool with PoolInactive; either
\* way nothing is moved and the pool stays as it was; sell(5) on an active
\* pool with total_supply 3 fails with InsufficientSupply.
C13_OversellOnActivePool ==
    /\ IsOversell =>
          /\ last.result
                = IF last.pre.is_active THEN "InsufficientSupply"
                  ELSE "PoolInactive"
          /\ pool = last.pre
          /\ last.effects = << >>
    /\ (pool.total_supply = N(3) /\ pool.is_active) =>
          sell_tokens(pool, pool.creator_wallet, N(5), TRUE)
              = Outcome("InsufficientSupply", pool, << >>, None)

\* sell of 10 tokens refused on an active pool that holds 2
C13_Witness ==
    /\ IsOversell
    /\ last.pre.is_active
    /\ last.amount = N(10)
    /\ last.pre.total_supply = N(2)
    /\ last.pre.reserve_sol # Zero
    /\ last.result = "InsufficientSupply"

\* the last instruction is a buy or a sell of 0 tokens, with the pool's
\* creator wallet
IsZeroTrade ==
    /\ IsTrade
    /\ last.account = last.pre.creator_wallet
    /\ last.amount = Zero

\* C14 as stated: buy(0) and sell(0) fail with InvalidAmount in every
\* reachable state of the pool and leave the pool as it was.
C14_ZeroTradeIsInvalidAmount ==
    IsZeroTrade =>
        /\ last.result = "InvalidAmount"
        /\ pool = last.pre

\* C14, amended: buy(0) and sell(0) fail in every reachable state and leave
\* the pool as it was, with nothing moved: with InvalidAmount on an active
\* pool, with PoolInactive on a deactivated one.
C14_ZeroTradeOnActivePool ==
    IsZeroTrade =>
        /\ last.result
              = IF last.pre.is_active THEN "InvalidAmount" ELSE "PoolInactive"
        /\ pool = last.pre
        /\ last.effects = << >>

\* buy(0) refused on an active pool that holds tokens
C14_Witness ==
    /\ last.op = "buy"
    /\ IsZeroTrade
    /\ last.pre.is_active
    /\ last.pre.total_supply # Zero
    /\ last.result = "InvalidAmount"

\* the fields of the pool that no instruction after initialize writes
Fixed(p) ==
    << p.pool_type, p.identifier, p.base_price, p.curve_param,
       p.creator_wallet, p.authority >>

\* C15: a successful buy or sell changes only total_supply and reserve_sol,
\* a successful deactivate_pool or reactivate_pool only is_active, get_price
\* and get_buy_cost nothing; so pool_type, identifier, base_price,
\* curve_param and creator_wallet are in every reachable state what
\* initialize made them.
C15_Frame ==
    /\ IsTrade =>
          [pool EXCEPT !.total_supply = last.pre.total_supply,
                       !.reserve_sol = last.pre.reserve_sol] = last.pre
    /\ IsManage => [pool EXCEPT !.is_active = last.pre.is_active] = last.pre
    /\ last.op \in {"get_price", "get_buy_cost"} => pool = last.pre
    /\ \E p0 \in InitialPools \cup {WhalePool} : Fixed(pool) = Fixed(p0)

\* a successful sell that changed the supply and the reserve and left tokens
\* in the pool
C15_Witness ==
    /\ last.op = "sell"
    /\ last.result = "Ok"
    /\ pool.total_supply # last.pre.total_supply
    /\ pool.reserve_sol # last.pre.reserve_sol
    /\ pool.total_supply # Zero

\* the last step quoted the price of a pool of the given type, at its supply
\* and at one token more, and both quotes returned a price
QuotedBoth(pool_type) ==
    /\ last.op = "get_price"
    /\ pool.pool_type = pool_type
    /\ last.at.result = "Ok"
    /\ last.next.result = "Ok"

\* C16: on both curves and for all parameters the price does not decrease
\* with the supply: price(s) <= price(s + 1) wherever both quotes return a
\* price.
C16_PriceNonDecreasing ==
    \A pool_type \in {"Creator", "Stream"} :
        QuotedBoth(pool_type) => Le(last.at.ret[2], last.next.ret[2])

\* base_price + slope * supply as a mathematical integer
LinearPriceExact(p) == Add(p.base_price, Mul(p.curve_param, p.total_supply))

\* C17: get_price on a creator pool never fails; it returns base_price +
\* slope * supply when that fits in 64 bits and 2^64 - 1 when it does not,
\* never a wrapped value.
C17_LinearQuoteSaturates ==
    (last.op = "get_price" /\ pool.pool_type = "Creator") =>
        /\ last.at.result = "Ok"
        /\ last.at.pool = pool
        /\ last.at.ret
              = Some(IF Le(LinearPriceExact(pool), U64_MAX)
                     THEN LinearPriceExact(pool) ELSE U64_MAX)

\* a quote of 2^64 - 1 where the product slope * supply alone is past 64
\* bits and would wrap to less
C17_Witness ==
    /\ last.op = "get_price"
    /\ pool.pool_type = "Creator"
    /\ last.at.ret = Some(U64_MAX)
    /\ Lt(U64_MAX, Mul(pool.curve_param, pool.total_supply))
    /\ Lt(LowBits(LinearPriceExact(pool), 64), U64_MAX)
    /\ pool.base_price # U64_MAX

\* the sum of base_price + slope * i over the integers i of [i, end), on
\* unbounded integers
RECURSIVE SumLinear(_, _, _, _)
SumLinear(i, end, base_price, slope) ==
    IF ~Lt(i, end) THEN Zero
    ELSE Add(Add(base_price, Mul(slope, i)),
             SumLinear(Add(i, One), end, base_price, slope))

\* amount * (first + last) of calculate_linear_integral, on unbounded
\* integers, for start < end
DoubledIndices(start, end) ==
    Mul(Sub(end, start), Add(start, Sub(end, One)))

\* no product and no sum of calculate_linear_integral is past 64 bits
LinearFits(start, end, base_price, slope) ==
    /\ Le(Mul(Sub(end, start), base_price), U64_MAX)
    /\ Le(Add(start, Sub(end, One)), U64_MAX)
    /\ Le(DoubledIndices(start, end), U64_MAX)
    /\ Le(Mul(Div(DoubledIndices(start, end), N(2)), slope), U64_MAX)
    /\ Le(SumLinear(start, end, base_price, slope), U64_MAX)

\* what C18 gives for calculate_linear_integral(start, end, base_price, slope)
LinearExpected(start, end, base_price, slope) ==
    IF start = end THEN Ok(Zero)
    ELSE IF Lt(end, start) THEN Err("Overflow")
    ELSE IF ~LinearFits(start, end, base_price, slope) THEN Err("Overflow")
    ELSE Ok(SumLinear(start, end, base_price, slope))

\* C18: calculate_linear_integral(start, end, base_price, slope) returns 0
\* for start = end, Overflow for end < start and when a product or a sum in
\* it is past 64 bits, and otherwise exactly the sum of base_price +
\* slope * i over the integers i of [start, end); the division by 2 in it
\* has no remainder.
C18_LinearIntegralExact ==
    last.op = "calculate_linear_integral" =>
        /\ last.whole = LinearExpected(last.start, last.end,
                                       pool.base_price, pool.curve_param)
        /\ last.left = LinearExpected(last.start, last.mid,
                                      pool.base_price, pool.curve_param)
        /\ last.right = LinearExpected(last.mid, last.end,
                                       pool.base_price, pool.curve_param)
        /\ last.back = LinearExpected(last.mid, last.start,
                                      pool.base_price, pool.curve_param)
        /\ Lt(last.start, last.end)
              => ~IsOdd(DoubledIndices(last.start, last.end))

\* the integral over the 15 supplies from 3 on with the default slope: an
\* odd number of tokens, exact
C18_Witness ==
    /\ last.op = "calculate_linear_integral"
    /\ last.start = N(3)
    /\ last.end = N(18)
    /\ pool.curve_param = N(DEFAULT_CREATOR_SLOPE)
    /\ last.whole.ok
    /\ last.whole.val
          = SumLinear(N(3), N(18), pool.base_price, pool.curve_param)
    /\ last.back = Err("Overflow")

\* C19: the linear integral is additive: cost(start, start + a) +
\* cost(start + a, start + a + b) = cost(start, start + a + b) whenever the
\* three calls return a value, a = 0 and b = 0 included.
C19_LinearIntegralAdditive ==
    ( /\ last.op = "calculate_linear_integral"
      /\ last.left.ok
      /\ last.right.ok
      /\ last.whole.ok )
    => Add(last.left.val, last.right.val) = last.whole.val

\* two parts of 1 and 5 tokens from supply 3 on, with the default slope, the
\* three integrals returned
C19_Witness ==
    /\ last.op = "calculate_linear_integral"
    /\ last.start = N(3)
    /\ last.mid = N(4)
    /\ last.end = N(9)
    /\ pool.curve_param = N(DEFAULT_CREATOR_SLOPE)
    /\ last.left.ok
    /\ last.right.ok
    /\ last.whole.ok
    /\ last.left.val # Zero
    /\ Lt(last.left.val, last.whole.val)

\* C20: the exponential price and exp_power return the truncating
\* fixed-point result or fail with Overflow: whenever a product result * base
\* or base * base in them is past 128 bits (the build with overflow checks
\* panics there), Overflow is returned, so that no wrapped value is returned.
C20_WideProductsReturnOverflow ==
    /\ (last.op = "get_price" /\ pool.pool_type = "Stream") =>
          /\ last.at.result \in {"Ok", "Overflow"}
          /\ last.checked.result = "Panic" => last.at.result = "Overflow"
    /\ last.op = "exp_power" =>
          /\ last.at.err \in {"None", "Overflow"}
          /\ last.checked.err = "Panic" => last.at.err = "Overflow"

\* a value that fits in 64 bits, or Overflow
FitsOrOverflow(v) == IF Le(v, U64_MAX) THEN Ok(v) ELSE Err("Overflow")

\* a price, or Overflow where there is none
TermOf(price) == IF price.ok THEN price ELSE Err("Overflow")

\* two sums added on unbounded integers
SumOf(left, right) ==
    IF left.ok /\ right.ok THEN Ok(Add(left.val, right.val))
    ELSE Err("Overflow")

\* the sum of the point prices of the n supplies from i on, on unbounded
\* integers; Overflow if one of them is no price
RECURSIVE PriceSum(_, _, _, _, _)
PriceSum(i, n, base_price, growth_rate_bps, oc) ==
    IF n = 0 THEN Ok(Zero)
    ELSE IF n = 1
    THEN TermOf(calculate_exponential_price(i, base_price, growth_rate_bps,
                                            oc))
    ELSE SumOf(PriceSum(i, n \div 2, base_price, growth_rate_bps, oc),
               PriceSum(Add(i, N(n \div 2)), n - n \div 2, base_price,
                        growth_rate_bps, oc))

\* a sum that fits in 64 bits, or Overflow
FitOf(sum) == IF sum.ok THEN FitsOrOverflow(sum.val) ELSE Err("Overflow")

\* r^n of the fixed-point power, r = (10000 + growth_rate_bps) / 10000
FixedPower(n, growth_rate_bps, oc) ==
    exp_power(Add(N(10000), growth_rate_bps), n, N(10000), oc)

\* floor(floor(base_price * (r^end - r^start) * 10000 / growth_rate_bps) / P)
\* on unbounded integers, from the two powers; Overflow if it does not fit or
\* there is no such power
SeriesValue(r_start, r_end, base_price, growth_rate_bps) ==
    IF r_start.ok /\ r_end.ok /\ Le(r_start.val, r_end.val)
    THEN FitsOrOverflow(
             Div(Div(Mul(Mul(base_price, Sub(r_end.val, r_start.val)),
                         N(10000)),
                     growth_rate_bps),
                 N(1000000000)))
    ELSE Err("Overflow")

\* what C21 gives for calculate_exponential_integral(start, end, base_price,
\* growth_rate_bps), start <= end
SeriesExpected(start, end, base_price, growth_rate_bps, oc) ==
    IF start = end THEN Ok(Zero)
    ELSE IF growth_rate_bps = Zero
    THEN FitsOrOverflow(Mul(base_price, Sub(end, start)))
    ELSE IF Le(Sub(end, start), N(100))
    THEN FitOf(PriceSum(start, Small(Sub(end, start)), base_price,
                        growth_rate_bps, oc))
    ELSE SeriesValue(FixedPower(start, growth_rate_bps, oc),
                     FixedPower(end, growth_rate_bps, oc),
                     base_price, growth_rate_bps)

\* C21: calculate_exponential_integral returns 0 for amount 0, the sum of
\* the point prices over [start, end) for 1 <= amount <= 100, the closed
\* form floor(floor(base_price * (r^end - r^start) * 10000 /
\* growth_rate_bps) / P) for amount > 100 and growth_rate_bps > 0,
\* base_price * amount for growth_rate_bps = 0, and Overflow when a term,
\* the accumulator or the result does not fit.
C21_ExponentialIntegralValue ==
    last.op = "calculate_exponential_integral" =>
        last.at = SeriesExpected(last.start, last.end, pool.base_price,
                                 pool.curve_param, last.oc)

\* C22: calculate_fee(gross) returns fee = floor(gross * 100 / 10000) and
\* net = gross - fee, with fee + net = gross and fee * 10000 <= gross * 100
\* (rounded down, at most 1%), for every gross with gross * 100 within 64
\* bits; for a larger gross it returns Overflow.
C22_FeeSplit ==
    last.op = "calculate_fee" =>
        IF Le(Mul(last.gross, N(100)), U64_MAX)
        THEN /\ last.at.ok
             /\ last.at.val[1] = Div(Mul(last.gross, N(100)), N(10000))
             /\ last.at.val[2] = Sub(last.gross, last.at.val[1])
             /\ Add(last.at.val[1], last.at.val[2]) = last.gross
             /\ Le(Mul(last.at.val[1], N(10000)), Mul(last.gross, N(100)))
             /\ Lt(Mul(last.gross, N(100)),
                   Mul(Add(last.at.val[1], One), N(10000)))
        ELSE last.at = Err("Overflow")

\* a gross of 199 lamports: the fee is 1, the 0.99 above it rounded away
C22_Witness ==
    /\ last.op = "calculate_fee"
    /\ last.gross = N(199)
    /\ last.at = Ok(<<N(1), N(198)>>)

\* L(0, n) of a creator pool: the sum of base_price + slope * i over the
\* integers i of [0, n)
CurveValue(p) == SumLinear(Zero, p.total_supply, p.base_price, p.curve_param)

\* the reserve of a creator pool is at most L(0, total_supply)
Covered(p) == Le(p.reserve_sol, CurveValue(p))

\* L(0, total_supply) - reserve_sol of a creator pool
Shortfall(p) == Sub(CurveValue(p), p.reserve_sol)

\* C23: on a creator pool reserve_sol = L(0, total_supply) - F in every
\* reachable state, F the fees of all successful buys so far: F is 0 after
\* initialize, a successful buy adds gross_cost - fee to the reserve and so
\* its fee to F, a successful sell takes the whole gross_refund out and
\* leaves F, and nothing else changes F; so reserve_sol <= L(0, total_supply)
\* throughout.
C23_ReserveIsCurveLessFees ==
    pool.pool_type = "Creator" =>
        /\ Covered(pool)
        /\ Covered(last.pre)
        /\ last.op = "initialize" => Shortfall(pool) = Zero
        /\ Shortfall(pool)
              = IF last.op = "buy" /\ last.result = "Ok"
                THEN Add(Shortfall(last.pre), last.effects[2].lamports)
                ELSE Shortfall(last.pre)
        /\ (last.op = "buy" /\ last.result = "Ok") =>
              /\ last.effects[5].fee = last.effects[2].lamports
              /\ Add(last.pre.reserve_sol,
                     Sub(last.effects[5].sol_amount, last.effects[5].fee))
                    = pool.reserve_sol
        /\ (last.op = "sell" /\ last.result = "Ok") =>
              Add(pool.reserve_sol, last.effects[5].sol_amount)
                  = last.pre.reserve_sol

\* a successful sell on a creator pool whose buys have paid fees, tokens
\* left in the pool
C23_Witness ==
    /\ pool.pool_type = "Creator"
    /\ last.op = "sell"
    /\ last.result = "Ok"
    /\ pool.total_supply # Zero
    /\ Shortfall(pool) # Zero
    /\ Shortfall(pool) = Shortfall(last.pre)

\* a creator pool on which a buy has charged a fee: each buy of a pool with
\* base_price >= 100 has gross_cost >= 100, and the fees charged so far are
\* the shortfall of the reserve (C23)
FeeCharged(p) ==
    /\ p.pool_type = "Creator"
    /\ Covered(p)
    /\ Shortfall(p) # Zero

\* the last instruction is a sell of the whole supply of such a pool, with
\* the pool's creator wallet
IsFullSell ==
    /\ last.op = "sell"
    /\ FeeCharged(last.pre)
    /\ last.account = last.pre.creator_wallet
    /\ last.amount = last.pre.total_supply

\* the sell of the whole supply, as a client could send it in this state
FullSell(p) == sell_tokens(p, p.creator_wallet, p.total_supply, TRUE)

\* the refund of the whole supply and its fee split compute
FullRefundFits(p) ==
    /\ curve_integral(p, Zero, p.total_supply, TRUE).ok
    /\ FeeFits(curve_integral(p, Zero, p.total_supply, TRUE).val)

\* C24 as stated: once a buy has charged a fee on a creator pool, every sell
\* that would bring total_supply to 0 is rejected with InsufficientReserve.
C24_FullSellIsInsufficientReserve ==
    IsFullSell => last.result = "InsufficientReserve"

\* C24, amended: once a buy has charged a fee on a creator pool,
\* total_supply is never 0 again: in every later state the sell of the whole
\* supply is rejected and changes nothing, with InsufficientReserve on an
\* active pool (Overflow if the refund or its fee does not compute), with
\* PoolInactive on a deactivated one.
C24_NeverFullyRedeemed ==
    /\ (pool.pool_type = "Creator" /\ bought # Zero
            /\ Le(N(100), pool.base_price)) => FeeCharged(pool)
    /\ FeeCharged(pool) =>
          /\ pool.total_supply # Zero
          /\ FullSell(pool).pool = pool
          /\ FullSell(pool).effects = << >>
          /\ FullSell(pool).result
                = IF ~pool.is_active THEN "PoolInactive"
                  ELSE IF FullRefundFits(pool) THEN "InsufficientReserve"
                  ELSE "Overflow"
    /\ IsFullSell =>
          /\ last.result
                = IF ~last.pre.is_active THEN "PoolInactive"
                  ELSE IF FullRefundFits(last.pre) THEN "InsufficientReserve"
                  ELSE "Overflow"
          /\ pool = last.pre

\* the sell of all 10 tokens of an active creator pool refused for want of
\* reserve
C24_Witness ==
    /\ IsFullSell
    /\ last.pre.is_active
    /\ last.amount = N(10)
    /\ last.result = "InsufficientReserve"
    /\ pool.total_supply = last.amount

=============================================================================
